---- MODULE Spec2Model ----
(***************************************************************************)
(* godns: dynamic DNS client.  Model of the IP resolver (utils.go), the    *)
(* DNSPod and Cloudflare domain loops (handler/...) and the supervisor     *)
(* that restarts failed loops.                                             *)
(*                                                                         *)
(* Strings that the code trims or concatenates are sequences of           *)
(* characters (IP strings) or of labels (host names), so that trimming and *)
(* joining are computed, not assumed.                                      *)
(***************************************************************************)
EXTENDS Integers, Sequences, FiniteSets, TLC

VARIABLES settings, hostIPs, pc, lastIP, currentIP, domainID, idx, recs, remote,
          log, prevIP, first, panicChan, failCount, launches, panics, signals,
          ipIn, ipOut, slept

vars == <<settings, hostIPs, pc, lastIP, currentIP, domainID, idx, recs, remote,
          log, prevIP, first, panicChan, failCount, launches, panics, signals,
          ipIn, ipOut, slept>>

loopVars == <<settings, hostIPs, pc, lastIP, currentIP, domainID, idx, recs, remote,
              log, prevIP, first, panicChan, failCount, launches, panics,
              signals, slept>>

(***************************************************************************)
(* Bounds and program constants                                            *)
(***************************************************************************)
\* number of distinct addresses the environment can report
NumIPs == 2

\* longest list of addresses an interface reports
MaxAddrs == 2

\* utils.go: PanicMax is the max allowed panic times
PanicMax == 5

NL == "\n"
EmptyStr == << >>

\* the address strings "1", "2", ... as one-character strings
IPStr(n) == << ToString(n) >>
IPs == { IPStr(n) : n \in 1..NumIPs }

(***************************************************************************)
(* strings.Trim / strings.TrimRight with cutset "\n"                       *)
(***************************************************************************)
RECURSIVE TrimRightNL(_)
TrimRightNL(s) ==
    IF s # EmptyStr /\ s[Len(s)] = NL
    THEN TrimRightNL(SubSeq(s, 1, Len(s) - 1))
    ELSE s

RECURSIVE TrimLeftNL(_)
TrimLeftNL(s) ==
    IF s # EmptyStr /\ s[1] = NL
    THEN TrimLeftNL(SubSeq(s, 2, Len(s)))
    ELSE s

TrimNL(s) == TrimLeftNL(TrimRightNL(s))

(***************************************************************************)
(* IP resolver (utils.go)                                                  *)
(***************************************************************************)
\* net = [err, body]: outcome of the HTTP GET of IPUrl (a failed proxy dial
\* is an error outcome too)
GetIPOnline(net) ==
    IF net.err
    THEN [ip |-> EmptyStr, err |-> TRUE]
    ELSE [ip |-> TrimNL(net.body), err |-> FALSE]

\* an interface address: kind is the class net.IP's predicates put it in
\* ("nil": neither *net.IPNet nor *net.IPAddr), v4 whether it is an IPv4
\* address, ip the text ip.String() gives, which has no colon for IPv4 and
\* at least two for IPv6
IsUnspecified(a) == a.kind = "unspecified"
IsLoopback(a) == a.kind = "loopback"
IsLinkLocalUnicast(a) == a.kind = "linklocal"
IsLinkLocalMulticast(a) == a.kind = "linklocalmc"
IsInterfaceLocalMulticast(a) == a.kind = "ifacelocalmc"
IsMulticast(a) == a.kind \in {"multicast", "linklocalmc", "ifacelocalmc"}
IsGlobalUnicast(a) ==
    /\ a.kind # "nil"
    /\ ~ IsUnspecified(a)
    /\ ~ IsLoopback(a)
    /\ ~ IsMulticast(a)
    /\ ~ IsLinkLocalUnicast(a)

\* strings.Count(ip, ":")
RECURSIVE CountColons(_)
CountColons(s) ==
    IF s = EmptyStr THEN 0
    ELSE (IF Head(s) = ":" THEN 1 ELSE 0) + CountColons(Tail(s))

\* one colon too many is let through
isIPv4_Loose(ip) == CountColons(ip) <= 2

isIPv4(ip) == CountColons(ip) < 2

\* lines 73-100: the address is skipped unless it passes these tests
AddrQualifies(a) ==
    /\ a.kind # "nil"
    /\ IsGlobalUnicast(a)
    /\ ~ ( \/ IsUnspecified(a)
           \/ IsMulticast(a)
           \/ IsLoopback(a)
           \/ IsLinkLocalUnicast(a)
           \/ IsLinkLocalMulticast(a)
           \/ IsInterfaceLocalMulticast(a) )
    /\ isIPv4(a.ip)

RECURSIVE FirstQualifying(_)
FirstQualifying(addrs) ==
    IF addrs = << >> THEN [ip |-> EmptyStr, err |-> TRUE]
    ELSE IF AddrQualifies(Head(addrs))
         THEN [ip |-> Head(addrs).ip, err |-> FALSE]
         ELSE FirstQualifying(Tail(addrs))

\* os = [err, addrs]: outcome of net.InterfaceByName / Addrs
GetIPFromInterface(os) ==
    IF os.err
    THEN [ip |-> EmptyStr, err |-> TRUE]
    ELSE FirstQualifying(os.addrs)

\* the interface is consulted before the online source (a plausible slip)
GetCurrentIP_IfaceFirst(conf, net, os) ==
    LET on == GetIPOnline(net)
        ifc == GetIPFromInterface(os)
    IN  IF conf.IPInterface # "" /\ ~ ifc.err
        THEN [ip |-> ifc.ip, err |-> FALSE, online |-> FALSE, iface |-> TRUE]
        ELSE IF conf.IPUrl # "" /\ ~ on.err
             THEN [ip |-> on.ip, err |-> FALSE, online |-> TRUE,
                   iface |-> conf.IPInterface # ""]
             ELSE [ip |-> EmptyStr, err |-> FALSE,
                   online |-> conf.IPUrl # "", iface |-> conf.IPInterface # ""]

\* result: ip, err (non-nil error), and which sources were consulted.
\* The err returned by the last statement is the outer variable, which the
\* two inner "ip, err :=" declarations shadow: it is always nil.
GetCurrentIP(conf, net, os) ==
    LET on == GetIPOnline(net)
        ifc == GetIPFromInterface(os)
        outerErr == FALSE
    IN  IF conf.IPUrl # "" /\ ~ on.err
        THEN [ip |-> on.ip, err |-> FALSE, online |-> TRUE, iface |-> FALSE]
        ELSE IF conf.IPInterface # "" /\ ~ ifc.err
             THEN [ip |-> ifc.ip, err |-> FALSE,
                   online |-> conf.IPUrl # "", iface |-> TRUE]
             ELSE [ip |-> EmptyStr, err |-> outerErr,
                   online |-> conf.IPUrl # "", iface |-> conf.IPInterface # ""]

\* whether any configured source can deliver an address
IPObtainable(conf, net, os) ==
    \/ conf.IPUrl # "" /\ ~ GetIPOnline(net).err
    \/ conf.IPInterface # "" /\ ~ GetIPFromInterface(os).err

(***************************************************************************)
(* Inputs of the resolver                                                  *)
(***************************************************************************)
IPConfs == { [IPUrl |-> u, IPInterface |-> i] :
                u \in {"", "http://myip"}, i \in {"", "eth0"} }

Bodies == IPs \cup { ip \o <<NL>> : ip \in IPs } \cup { EmptyStr }

NetOutcomes == { [err |-> TRUE, body |-> EmptyStr] }
                 \cup { [err |-> FALSE, body |-> b] : b \in Bodies }

Addr(k, v, ip) == [kind |-> k, v4 |-> v, ip |-> ip]

AddrLists ==
    { << >> } \cup
    { << Addr("loopback", TRUE, <<"L">>), Addr("global", TRUE, ip) >> : ip \in IPs } \cup
    { << Addr("global", FALSE, <<"2", ":", ":", "6">>), Addr("linklocal", TRUE, <<"K">>) >> } \cup
    { << Addr("global", TRUE, ip) >> : ip \in IPs }

OSOutcomes == { [err |-> TRUE, addrs |-> << >>] }
                \cup { [err |-> FALSE, addrs |-> a] : a \in AddrLists }

\* addresses an interface can carry, one or more of every class
SampleAddrs ==
    { Addr("nil", FALSE, EmptyStr),
      Addr("unspecified", TRUE, <<"0">>),
      Addr("loopback", TRUE, <<"L">>),
      Addr("loopback", FALSE, <<":", ":", "1">>),
      Addr("multicast", TRUE, <<"M">>),
      Addr("linklocal", TRUE, <<"K">>),
      Addr("linklocal", FALSE, <<"f", "e", ":", ":", "1">>),
      Addr("linklocalmc", TRUE, <<"m">>),
      Addr("ifacelocalmc", FALSE, <<"f", "f", ":", ":", "1">>),
      Addr("global", FALSE, <<"2", ":", ":", "6">>) }
    \cup { Addr("global", TRUE, ip) : ip \in IPs }

\* every ordered list of at most MaxAddrs such addresses
AllAddrLists == UNION { [1..n -> SampleAddrs] : n \in 0..MaxAddrs }

IfaceOutcomes == { [err |-> TRUE, addrs |-> << >>] }
                   \cup { [err |-> FALSE, addrs |-> a] : a \in AllAddrLists }

NoIPIn == [conf |-> [IPUrl |-> "", IPInterface |-> ""],
           net |-> [err |-> TRUE, body |-> EmptyStr],
           os |-> [err |-> TRUE, addrs |-> << >>]]
NoIPOut == [ip |-> EmptyStr, err |-> FALSE, online |-> FALSE, iface |-> FALSE]

(***************************************************************************)
(* Configuration (settings.go) and host names                              *)
(***************************************************************************)
\* a host name is the sequence of its labels and dots
ExampleCom == <<"example", ".", "com">>
ExampleOrg == <<"example", ".", "org">>
Home == <<"home">>
WWW == <<"www">>

\* subDomain + "." + domain.DomainName, fmt.Sprintf("%s.%s", ...)
JoinName(sub, dom) == sub \o <<".">> \o dom

Domain(name, subs) == [DomainName |-> name, SubDomains |-> subs]

Doms == DOMAIN pc
Dom(d) == settings.Domains[d]

Event(op, name, ip, ok) == [op |-> op, name |-> name, ip |-> ip, ok |-> ok]

(***************************************************************************)
(* The provider's side: records of a domain, ids                           *)
(***************************************************************************)
RecordIDs == <<"r1", "r2", "r3", "r4">>
Rec(name, ip) == [name |-> name, ip |-> ip]

\* DNSPod's numeric id of the d-th configured domain
RealDomainID(d) == d

\* Cloudflare's zone id of the d-th configured domain, and an id that
\* cannot be put in a URL (control character)
ZoneIDs == << <<"z", "1">>, <<"z", "2">> >>
BadZoneID == <<"z", NL>>

\* http.NewRequest fails on a URL with a control character and returns a
\* nil request
URLValid(s) == \A i \in 1..Len(s) : s[i] # NL

RECURSIVE FirstIndex(_, _, _)
FirstIndex(list, name, k) ==
    IF k > Len(list) THEN 0
    ELSE IF list[k].name = name THEN k
    ELSE FirstIndex(list, name, k + 1)

RECURSIVE IndexOfID(_, _)
IndexOfID(id, k) ==
    IF k > Len(RecordIDs) THEN 0
    ELSE IF RecordIDs[k] = id THEN k
    ELSE IndexOfID(id, k + 1)

(***************************************************************************)
(* DNSPod handler: response parsing                                        *)
(***************************************************************************)
DomainEntry(isMap, name, idIsNumber, id) ==
    [isMap |-> isMap, name |-> name, idIsNumber |-> idIsNumber, id |-> id]

Resp(kind, list) == [kind |-> kind, list |-> list]

\* what /Domain.List may answer for the d-th domain
DomainListResponses(d) ==
    { Resp("err", << >>), Resp("badjson", << >>), Resp("status", << >>),
      Resp("ok", << >>),
      Resp("ok", << DomainEntry(TRUE, Dom(d).DomainName, TRUE, RealDomainID(d)) >>),
      Resp("ok", << DomainEntry(TRUE, Dom(d).DomainName, FALSE, 0) >>),
      Resp("ok", << DomainEntry(FALSE, << >>, FALSE, 0) >>) }

RECURSIVE ScanDomains(_, _)
ScanDomains(list, name) ==
    IF list = << >> THEN [panic |-> FALSE, ret |-> 0]
    ELSE LET m == Head(list)
         IN  IF ~ m.isMap THEN [panic |-> TRUE, ret |-> 0]
             ELSE IF m.name = name
                  THEN [panic |-> FALSE,
                        ret |-> IF m.idIsNumber THEN m.id ELSE 0]
                  ELSE ScanDomains(Tail(list), name)

GetDomain(resp, name) ==
    IF resp.kind \in {"err", "badjson"} THEN [panic |-> FALSE, ret |-> -1]
    ELSE IF resp.kind = "ok" THEN ScanDomains(resp.list, name)
    ELSE [panic |-> FALSE, ret |-> 0]

RecordEntry(isMap, name, idIsString, id, value) ==
    [isMap |-> isMap, name |-> name, idIsString |-> idIsString,
     id |-> id, value |-> value]

\* what /Record.List (sub_domain = name, length = 1) may answer
RecordListResponses(d, id, name) ==
    LET k == FirstIndex(remote[d], name, 1)
    IN  { Resp("err", << >>), Resp("status", << >>) } \cup
        ( IF id = RealDomainID(d)
          THEN IF k = 0
               THEN { Resp("ok", << >>) }
               ELSE { Resp("ok", << RecordEntry(TRUE, name, TRUE, RecordIDs[k],
                                                remote[d][k].ip) >>),
                      Resp("ok", << RecordEntry(TRUE, name, FALSE, "",
                                                remote[d][k].ip) >>) }
          ELSE { } )

RECURSIVE ScanRecords(_, _)
ScanRecords(list, name) ==
    IF list = << >> THEN [panic |-> FALSE, id |-> "", ip |-> EmptyStr]
    ELSE LET m == Head(list)
         IN  IF ~ m.isMap THEN [panic |-> TRUE, id |-> "", ip |-> EmptyStr]
             ELSE IF m.name = name
                  THEN IF m.idIsString
                       THEN [panic |-> FALSE, id |-> m.id, ip |-> m.value]
                       ELSE [panic |-> TRUE, id |-> "", ip |-> EmptyStr]
                  ELSE ScanRecords(Tail(list), name)

GetSubDomain(resp, name) ==
    IF resp.kind = "ok" THEN ScanRecords(resp.list, name)
    ELSE [panic |-> FALSE, id |-> "", ip |-> EmptyStr]

\* outcomes of /Record.Modify and of a Cloudflare PUT
UpdateOutcomes == {"err", "badjson", "status", "ok"}

\* the provider's records after an update request with the given outcome
ApplyUpdate(list, k, ip, outcome) ==
    IF outcome = "ok" /\ k \in 1..Len(list)
    THEN [list EXCEPT ![k].ip = ip]
    ELSE list

\* every record found is rewritten, equal or not
NeedsUpdate_Always(cur, ip) == Len(ip) > 0

\* line 78: the record is updated when it differs from the current IP
NeedsUpdate(cur, ip) ==
    Len(ip) > 0 /\ TrimRightNL(cur) # TrimRightNL(ip)

(***************************************************************************)
(* What the resolver's sources may answer during a loop                    *)
(***************************************************************************)
\* hostIPs: the addresses the host has during the run
LoopNet == { [err |-> TRUE, body |-> EmptyStr],
             [err |-> FALSE, body |-> EmptyStr] }
           \cup { [err |-> FALSE, body |-> ip \o <<NL>>] : ip \in hostIPs }

LoopOS == { [err |-> TRUE, addrs |-> << >>] }
          \cup { [err |-> FALSE, addrs |-> << Addr("global", TRUE, ip) >>] : ip \in hostIPs }

(***************************************************************************)
(* Cloudflare handler: response parsing                                    *)
(***************************************************************************)
Zone(name, id) == [Name |-> name, ID |-> id]
DNSRecord(id, ip, name, zone) == [ID |-> id, IP |-> ip, Name |-> name, ZoneID |-> zone]

\* what GET /zones may answer for the d-th domain
ZoneResponses(d) ==
    { Resp("err", << >>), Resp("badjson", << >>), Resp("status", << >>),
      Resp("ok", << >>),
      Resp("ok", << Zone(Dom(d).DomainName, ZoneIDs[d]) >>),
      Resp("ok", << Zone(Dom(d).DomainName, BadZoneID) >>) }

RECURSIVE ScanZones(_, _)
ScanZones(list, domain) ==
    IF list = << >> THEN EmptyStr
    ELSE IF Head(list).Name = domain THEN Head(list).ID
    ELSE ScanZones(Tail(list), domain)

getZone(resp, domain) ==
    IF resp.kind = "ok" THEN ScanZones(resp.list, domain) ELSE EmptyStr

\* what GET /zones/<id>/dns_records?type=A may answer
DNSRecordsResponses(d, zoneID) ==
    { Resp("err", << >>), Resp("status", << >>) } \cup
    ( IF zoneID = ZoneIDs[d]
      THEN { Resp("ok", [k \in 1..Len(remote[d]) |->
                           DNSRecord(RecordIDs[k], remote[d][k].ip,
                                     remote[d][k].name, zoneID)]) }
      ELSE { } )

getDNSRecords(resp) ==
    IF resp.kind = "ok" THEN resp.list ELSE << >>

\* every record of the zone counts as tracked
recordTracked_All(domain, record) == TRUE

\* Check if record is present in domain conf
recordTracked(domain, record) ==
    \/ record.Name = domain.DomainName
    \/ \E i \in 1..Len(domain.SubDomains) :
          record.Name = JoinName(domain.SubDomains[i], domain.DomainName)

(***************************************************************************)
(* Failure channel                                                         *)
(***************************************************************************)
\* every loop reports the first configured domain (a plausible slip)
FailureSignal_First(d) == Dom(1)

\* panicChan <- *domain
FailureSignal(d) == Dom(d)

DomainIndex(sig) == CHOOSE d \in Doms : Dom(d) = sig

\* the restart budget is tested before the failure is counted
ShouldRelaunch_Late(count) == count - 1 < PanicMax

\* the Supervisor relaunches while the incremented counter is below PanicMax
ShouldRelaunch(count) == count < PanicMax

(***************************************************************************)
(* Domain loops                                                            *)
(***************************************************************************)
\* the recovered loop starts over by itself instead of reporting
Fault_Retry(d) ==
    /\ pc' = [pc EXCEPT ![d] = "top"]
    /\ panics' = [panics EXCEPT ![d] = @ + 1]
    /\ lastIP' = [lastIP EXCEPT ![d] = EmptyStr]
    /\ currentIP' = [currentIP EXCEPT ![d] = EmptyStr]
    /\ domainID' = [domainID EXCEPT ![d] = 0]
    /\ idx' = [idx EXCEPT ![d] = 0]
    /\ recs' = [recs EXCEPT ![d] = << >>]
    /\ prevIP' = [prevIP EXCEPT ![d] = EmptyStr]
    /\ first' = [first EXCEPT ![d] = TRUE]
    /\ slept' = [slept EXCEPT ![d] = 0]
    /\ log' = [log EXCEPT ![d] = << >>]
    /\ UNCHANGED remote

\* a panic unwinds the loop's frame: its locals are gone, and the deferred
\* function runs next
Fault(d) ==
    /\ pc' = [pc EXCEPT ![d] = "recovering"]
    /\ panics' = [panics EXCEPT ![d] = @ + 1]
    /\ lastIP' = [lastIP EXCEPT ![d] = EmptyStr]
    /\ currentIP' = [currentIP EXCEPT ![d] = EmptyStr]
    /\ domainID' = [domainID EXCEPT ![d] = 0]
    /\ idx' = [idx EXCEPT ![d] = 0]
    /\ recs' = [recs EXCEPT ![d] = << >>]
    /\ prevIP' = [prevIP EXCEPT ![d] = EmptyStr]
    /\ first' = [first EXCEPT ![d] = TRUE]
    /\ slept' = [slept EXCEPT ![d] = 0]
    /\ log' = [log EXCEPT ![d] = << >>]
    /\ UNCHANGED remote

NoFault == UNCHANGED <<panics, slept>>

\* DNSPod line 63: "currentIP == lastIP" means no change
IPChanged(last, cur) == ~ (cur = last)

\* DNSPod lines 46-52: the domain lookup that opens a cycle
DP_GetDomain(d) ==
    /\ settings.Provider = "DNSPod"
    /\ pc[d] = "top"
    /\ \E resp \in DomainListResponses(d) :
          LET r == GetDomain(resp, Dom(d).DomainName)
          IN  IF r.panic
              THEN Fault(d)
              ELSE /\ NoFault
                   /\ log' = [log EXCEPT ![d] =
                                << Event("Domain.List", Dom(d).DomainName, EmptyStr,
                                         r.ret = RealDomainID(d)) >>]
                   /\ domainID' = [domainID EXCEPT ![d] = r.ret]
                   /\ pc' = [pc EXCEPT ![d] =
                               IF r.ret = -1 THEN "top" ELSE "resolve"]
                   /\ UNCHANGED <<lastIP, currentIP, idx, recs, remote, prevIP, first>>
    /\ UNCHANGED <<settings, hostIPs, panicChan, failCount, launches, signals, ipIn, ipOut>>

\* DNSPod lines 54-66: resolve the IP and compare it with the cached one
DP_Resolve(d) ==
    /\ settings.Provider = "DNSPod"
    /\ pc[d] = "resolve"
    /\ \E net \in LoopNet, os \in LoopOS :
          LET r == GetCurrentIP(settings, net, os)
              ev == Event("resolve", EmptyStr, r.ip, IPObtainable(settings, net, os))
          IN  IF r.err
              THEN /\ pc' = [pc EXCEPT ![d] = "top"]
                   /\ log' = [log EXCEPT ![d] = Append(@, ev)]
                   /\ UNCHANGED <<currentIP, lastIP, idx>>
              ELSE /\ currentIP' = [currentIP EXCEPT ![d] = r.ip]
                   /\ IF ~ IPChanged(lastIP[d], r.ip)
                      THEN /\ pc' = [pc EXCEPT ![d] = "sleep"]
                           /\ log' = [log EXCEPT ![d] = Append(@, ev)]
                           /\ UNCHANGED <<lastIP, idx>>
                      ELSE /\ lastIP' = [lastIP EXCEPT ![d] = r.ip]
                           /\ idx' = [idx EXCEPT ![d] = 1]
                           /\ log' = [log EXCEPT ![d] =
                                        Append(Append(@, ev),
                                               Event("setLastIP", EmptyStr, r.ip, TRUE))]
                           /\ pc' = [pc EXCEPT ![d] =
                                       IF Dom(d).SubDomains = << >>
                                       THEN "sleep" ELSE "subs"]
    /\ UNCHANGED <<settings, hostIPs, domainID, recs, remote, prevIP, first,
                   panicChan, failCount, launches, panics, signals, ipIn, ipOut, slept>>

\* a skipped subdomain ends the scan of the subdomains (break for continue)
DP_SubDomain_Break(d) ==
    /\ settings.Provider = "DNSPod"
    /\ pc[d] = "subs"
    /\ LET sub == Dom(d).SubDomains[idx[d]]
           last == idx[d] = Len(Dom(d).SubDomains)
       IN  \E resp \in RecordListResponses(d, domainID[d], sub),
              outcome \in UpdateOutcomes, mailOK \in BOOLEAN :
             LET r == GetSubDomain(resp, sub)
                 look == Event("Record.List", sub, r.ip, r.id # "")
                 upd == Event("Record.Modify", sub, currentIP[d], outcome = "ok")
                 mail == Event("notify", JoinName(sub, Dom(d).DomainName),
                               currentIP[d], mailOK)
             IN  IF r.panic
                 THEN Fault(d)
                 ELSE /\ NoFault
                      /\ idx' = [idx EXCEPT ![d] = @ + 1]
                      /\ pc' = [pc EXCEPT ![d] =
                                  IF last \/ r.id = "" \/ r.ip = EmptyStr
                                  THEN "sleep" ELSE "subs"]
                      /\ UNCHANGED <<lastIP, currentIP, domainID, recs, prevIP, first>>
                      /\ IF r.id = "" \/ r.ip = EmptyStr
                         THEN /\ log' = [log EXCEPT ![d] = Append(@, look)]
                              /\ UNCHANGED remote
                         ELSE IF NeedsUpdate(currentIP[d], r.ip)
                         THEN /\ remote' = [remote EXCEPT ![d] =
                                   ApplyUpdate(@, IndexOfID(r.id, 1), currentIP[d], outcome)]
                              /\ log' = [log EXCEPT ![d] =
                                   IF settings.NotifyEnabled
                                   THEN @ \o <<look, upd, mail>>
                                   ELSE @ \o <<look, upd>>]
                         ELSE /\ log' = [log EXCEPT ![d] = Append(@, look)]
                              /\ UNCHANGED remote
    /\ UNCHANGED <<settings, hostIPs, panicChan, failCount, launches, signals, ipIn, ipOut>>

\* DNSPod lines 68-93: one subdomain of the cycle: look the record up,
\* update it when it differs, notify
DP_SubDomain(d) ==
    /\ settings.Provider = "DNSPod"
    /\ pc[d] = "subs"
    /\ LET sub == Dom(d).SubDomains[idx[d]]
           last == idx[d] = Len(Dom(d).SubDomains)
       IN  \E resp \in RecordListResponses(d, domainID[d], sub),
              outcome \in UpdateOutcomes, mailOK \in BOOLEAN :
             LET r == GetSubDomain(resp, sub)
                 look == Event("Record.List", sub, r.ip, r.id # "")
                 upd == Event("Record.Modify", sub, currentIP[d], outcome = "ok")
                 mail == Event("notify", JoinName(sub, Dom(d).DomainName),
                               currentIP[d], mailOK)
             IN  IF r.panic
                 THEN Fault(d)
                 ELSE /\ NoFault
                      /\ idx' = [idx EXCEPT ![d] = @ + 1]
                      /\ pc' = [pc EXCEPT ![d] = IF last THEN "sleep" ELSE "subs"]
                      /\ UNCHANGED <<lastIP, currentIP, domainID, recs, prevIP, first>>
                      /\ IF r.id = "" \/ r.ip = EmptyStr
                         THEN /\ log' = [log EXCEPT ![d] = Append(@, look)]
                              /\ UNCHANGED remote
                         ELSE IF NeedsUpdate(currentIP[d], r.ip)
                         THEN /\ remote' = [remote EXCEPT ![d] =
                                   ApplyUpdate(@, IndexOfID(r.id, 1), currentIP[d], outcome)]
                              /\ log' = [log EXCEPT ![d] =
                                   IF settings.NotifyEnabled
                                   THEN @ \o <<look, upd, mail>>
                                   ELSE @ \o <<look, upd>>]
                         ELSE /\ log' = [log EXCEPT ![d] = Append(@, look)]
                              /\ UNCHANGED remote
    /\ UNCHANGED <<settings, hostIPs, panicChan, failCount, launches, signals, ipIn, ipOut>>

\* Cloudflare lines 77-83: resolve the IP that opens a cycle
CF_Resolve(d) ==
    /\ settings.Provider = "Cloudflare"
    /\ pc[d] = "top"
    /\ \E net \in LoopNet, os \in LoopOS :
          LET r == GetCurrentIP(settings, net, os)
              ev == Event("resolve", EmptyStr, r.ip, IPObtainable(settings, net, os))
          IN  /\ log' = [log EXCEPT ![d] = << ev >>]
              /\ IF r.err
                 THEN UNCHANGED <<pc, currentIP>>
                 ELSE /\ currentIP' = [currentIP EXCEPT ![d] = r.ip]
                      /\ pc' = [pc EXCEPT ![d] = "zone"]
    /\ UNCHANGED <<settings, hostIPs, lastIP, domainID, idx, recs, remote, prevIP,
                   first, panicChan, failCount, launches, panics, signals,
                   ipIn, ipOut, slept>>

\* Cloudflare lines 86-89: find the zone and fetch its records; a zone id
\* that makes no valid URL leaves newRequest with a nil request
CF_GetZone(d) ==
    /\ settings.Provider = "Cloudflare"
    /\ pc[d] = "zone"
    /\ \E zresp \in ZoneResponses(d) :
          LET zoneID == getZone(zresp, Dom(d).DomainName)
              zev == Event("zones", Dom(d).DomainName, EmptyStr, zoneID # EmptyStr)
          IN  IF zoneID = EmptyStr
              THEN /\ NoFault
                   /\ pc' = [pc EXCEPT ![d] = "sleep"]
                   /\ log' = [log EXCEPT ![d] = Append(@, zev)]
                   /\ UNCHANGED <<recs, idx, lastIP, currentIP, domainID, remote, prevIP,
                                first>>
              ELSE IF ~ URLValid(zoneID)
              THEN Fault(d)
              ELSE \E rresp \in DNSRecordsResponses(d, zoneID) :
                     LET records == getDNSRecords(rresp)
                     IN  /\ NoFault
                         /\ recs' = [recs EXCEPT ![d] = records]
                         /\ idx' = [idx EXCEPT ![d] = 1]
                         /\ log' = [log EXCEPT ![d] = @ \o
                               << zev, Event("dns_records", Dom(d).DomainName,
                                             EmptyStr, rresp.kind = "ok") >>]
                         /\ pc' = [pc EXCEPT ![d] =
                                     IF records = << >> THEN "sleep" ELSE "recs"]
                         /\ UNCHANGED <<lastIP, currentIP, domainID, remote, prevIP, first>>
    /\ UNCHANGED <<settings, hostIPs, panicChan, failCount, launches, signals, ipIn, ipOut>>

\* Cloudflare lines 92-103: one record of the fetched list
CF_Record(d) ==
    /\ settings.Provider = "Cloudflare"
    /\ pc[d] = "recs"
    /\ LET rec == recs[d][idx[d]]
           last == idx[d] = Len(recs[d])
       IN  \E outcome \in UpdateOutcomes :
             /\ idx' = [idx EXCEPT ![d] = @ + 1]
             /\ pc' = [pc EXCEPT ![d] = IF last THEN "sleep" ELSE "recs"]
             /\ IF recordTracked(Dom(d), rec) /\ rec.IP # currentIP[d]
                THEN /\ remote' = [remote EXCEPT ![d] =
                          ApplyUpdate(@, IndexOfID(rec.ID, 1), currentIP[d], outcome)]
                     /\ log' = [log EXCEPT ![d] =
                          Append(@, Event("update", rec.Name, currentIP[d],
                                          outcome = "ok"))]
                ELSE UNCHANGED <<remote, log>>
    /\ UNCHANGED <<settings, hostIPs, lastIP, currentIP, domainID, recs, prevIP,
                   first, panicChan, failCount, launches, panics, signals,
                   ipIn, ipOut, slept>>

\* cloudflare_handler.go line 108: "Interval is 5 minutes"
INTERVAL == 5

\* the length of the sleep in seconds: time.Second * Interval in the DNSPod
\* loop, time.Minute * INTERVAL in the Cloudflare loop
SleepSeconds ==
    IF settings.Provider = "DNSPod" THEN settings.Interval ELSE 60 * INTERVAL

\* time.Sleep at the end of a cycle; the next iteration starts with fresh
\* locals; slept keeps the length of the loop's last sleep
Sleep(d) ==
    /\ pc[d] = "sleep"
    /\ pc' = [pc EXCEPT ![d] = "top"]
    /\ prevIP' = [prevIP EXCEPT ![d] =
                    IF settings.Provider = "Cloudflare" THEN currentIP[d] ELSE @]
    /\ currentIP' = [currentIP EXCEPT ![d] = EmptyStr]
    /\ domainID' = [domainID EXCEPT ![d] = 0]
    /\ idx' = [idx EXCEPT ![d] = 0]
    /\ recs' = [recs EXCEPT ![d] = << >>]
    /\ log' = [log EXCEPT ![d] = << >>]
    /\ first' = [first EXCEPT ![d] = FALSE]
    /\ slept' = [slept EXCEPT ![d] = SleepSeconds]
    /\ UNCHANGED <<settings, hostIPs, lastIP, remote, panicChan, failCount, launches,
                   panics, signals, ipIn, ipOut>>

\* the loop reports the fault and then goes on with its next cycle
Recover_KeepRunning(d) ==
    /\ pc[d] = "recovering"
    /\ panicChan' = Append(panicChan, FailureSignal(d))
    /\ signals' = [signals EXCEPT ![d] = @ + 1]
    /\ pc' = [pc EXCEPT ![d] = "top"]
    /\ UNCHANGED <<settings, hostIPs, lastIP, currentIP, domainID, idx, recs, remote,
                   log, prevIP, first, failCount, launches, panics, ipIn, ipOut, slept>>

\* the deferred function logs the fault and returns without sending
Recover_Drop(d) ==
    /\ pc[d] = "recovering"
    /\ pc' = [pc EXCEPT ![d] = "dead"]
    /\ UNCHANGED <<settings, hostIPs, lastIP, currentIP, domainID, idx, recs, remote,
                   log, prevIP, first, panicChan, failCount, launches, panics,
                   signals, ipIn, ipOut, slept>>

\* the deferred recover(): send the domain on the failure channel, return
Recover(d) ==
    /\ pc[d] = "recovering"
    /\ panicChan' = Append(panicChan, FailureSignal(d))
    /\ signals' = [signals EXCEPT ![d] = @ + 1]
    /\ pc' = [pc EXCEPT ![d] = "dead"]
    /\ UNCHANGED <<settings, hostIPs, lastIP, currentIP, domainID, idx, recs, remote,
                   log, prevIP, first, failCount, launches, panics, ipIn, ipOut, slept>>

(***************************************************************************)
(* Supervisor                                                              *)
(***************************************************************************)
Supervise ==
    /\ panicChan # << >>
    /\ LET d == DomainIndex(Head(panicChan))
           count == failCount[d] + 1
       IN  /\ panicChan' = Tail(panicChan)
           /\ failCount' = [failCount EXCEPT ![d] = count]
           /\ IF ShouldRelaunch(count)
              THEN /\ launches' = [launches EXCEPT ![d] = @ + 1]
                   /\ pc' = [pc EXCEPT ![d] = "top"]
                   /\ lastIP' = [lastIP EXCEPT ![d] = EmptyStr]
                   /\ currentIP' = [currentIP EXCEPT ![d] = EmptyStr]
                   /\ domainID' = [domainID EXCEPT ![d] = 0]
                   /\ idx' = [idx EXCEPT ![d] = 0]
                   /\ recs' = [recs EXCEPT ![d] = << >>]
                   /\ log' = [log EXCEPT ![d] = << >>]
                   /\ prevIP' = [prevIP EXCEPT ![d] = EmptyStr]
                   /\ first' = [first EXCEPT ![d] = TRUE]
                   /\ slept' = [slept EXCEPT ![d] = 0]
              ELSE UNCHANGED <<launches, pc, lastIP, currentIP, domainID, idx,
                               recs, log, prevIP, first, slept>>
    /\ UNCHANGED <<settings, hostIPs, remote, panics, signals, ipIn, ipOut>>

(***************************************************************************)
(* Initial states                                                          *)
(***************************************************************************)
Providers == {"DNSPod", "Cloudflare"}

\* settings.go lines 58-61: an interval of 0 (or absent from the file)
\* becomes 5 minutes
LoadInterval(raw) == IF raw = 0 THEN 5 * 60 ELSE raw

\* ConfigInterval is the interval as the config file has it, Interval the
\* field after LoadSettings
Settings(p, notify, domains) ==
    [Provider |-> p, IPUrl |-> "http://myip", IPInterface |-> "eth0",
     NotifyEnabled |-> notify, Domains |-> domains,
     ConfigInterval |-> 0, Interval |-> LoadInterval(0)]

\* the name under which the provider lists the record of a subdomain
RemoteName(p, sub, dom) ==
    IF p = "Cloudflare" THEN JoinName(sub, dom) ELSE sub

\* the provider's records of a domain when the program starts, with values
\* among addrs; the record of the last subdomain may be missing
InitialRemotes(p, dm, addrs) ==
    LET n == Len(dm.SubDomains)
        nm(i) == RemoteName(p, dm.SubDomains[i], dm.DomainName)
    IN  IF n = 0 THEN { << >> }
        ELSE IF n = 1 THEN { << >> } \cup { << Rec(nm(1), x) >> : x \in addrs }
        ELSE { << Rec(nm(1), x) >> : x \in addrs } \cup
             { << Rec(nm(1), x), Rec(nm(2), y) >> : x \in addrs, y \in addrs }

OneDomain == << Domain(ExampleCom, << Home, WWW >>) >>
OneSubDomain == << Domain(ExampleCom, << Home >>) >>
TwoDomains == << Domain(ExampleCom, << Home >>), Domain(ExampleOrg, << >>) >>

InitLoops(domains) ==
    LET D == 1..Len(domains)
    IN  /\ pc = [d \in D |-> "top"]
        /\ lastIP = [d \in D |-> EmptyStr]
        /\ currentIP = [d \in D |-> EmptyStr]
        /\ domainID = [d \in D |-> 0]
        /\ idx = [d \in D |-> 0]
        /\ recs = [d \in D |-> << >>]
        /\ log = [d \in D |-> << >>]
        /\ prevIP = [d \in D |-> EmptyStr]
        /\ first = [d \in D |-> TRUE]
        /\ panicChan = << >>
        /\ failCount = [d \in D |-> 0]
        /\ launches = [d \in D |-> 0]
        /\ panics = [d \in D |-> 0]
        /\ signals = [d \in D |-> 0]
        /\ slept = [d \in D |-> 0]

InitWith(domains, notifies, addrs) ==
    /\ hostIPs = addrs
    /\ \E p \in Providers, n \in notifies :
          /\ settings = Settings(p, n, domains)
          /\ remote \in [1..Len(domains) ->
                           UNION { InitialRemotes(p, domains[d], addrs) :
                                      d \in 1..Len(domains) }]
          /\ \A d \in 1..Len(domains) :
                remote[d] \in InitialRemotes(p, domains[d], addrs)
    /\ InitLoops(domains)
    /\ ipIn = NoIPIn
    /\ ipOut = [called |-> FALSE, res |-> NoIPOut]

\* one domain with one or two subdomains on a host whose address changes
Init ==
    \/ InitWith(OneDomain, BOOLEAN, IPs)
    \/ InitWith(OneSubDomain, BOOLEAN, IPs)

\* two domains under one supervisor on a host with one address
InitSup == InitWith(TwoDomains, {FALSE}, {IPStr(1)})

Next ==
    \/ \E d \in Doms : DP_GetDomain(d)
    \/ \E d \in Doms : DP_Resolve(d)
    \/ \E d \in Doms : DP_SubDomain(d)
    \/ \E d \in Doms : CF_Resolve(d)
    \/ \E d \in Doms : CF_GetZone(d)
    \/ \E d \in Doms : CF_Record(d)
    \/ \E d \in Doms : Sleep(d)
    \/ \E d \in Doms : Recover(d)
    \/ Supervise

Spec == Init /\ [][Next]_vars
SpecSup == InitSup /\ [][Next]_vars

\* one subdomain for which the provider lists two records of the same name
InitDup ==
    /\ hostIPs = IPs
    /\ \E p \in Providers, x \in IPs, y \in IPs :
          /\ settings = Settings(p, FALSE, OneSubDomain)
          /\ remote = << << Rec(RemoteName(p, Home, ExampleCom), x),
                            Rec(RemoteName(p, Home, ExampleCom), y) >> >>
    /\ InitLoops(OneSubDomain)
    /\ ipIn = NoIPIn
    /\ ipOut = [called |-> FALSE, res |-> NoIPOut]

SpecDup == InitDup /\ [][Next]_vars

\* the intervals a config file may ask for, in seconds
ConfigIntervals == {0, 60, 300}

\* one subdomain, every configured interval
InitSleep ==
    /\ hostIPs = IPs
    /\ \E p \in Providers, raw \in ConfigIntervals :
          /\ settings = [Settings(p, FALSE, OneSubDomain)
                           EXCEPT !.ConfigInterval = raw,
                                  !.Interval = LoadInterval(raw)]
          /\ remote \in [{1} -> InitialRemotes(p, OneSubDomain[1], IPs)]
    /\ InitLoops(OneSubDomain)
    /\ ipIn = NoIPIn
    /\ ipOut = [called |-> FALSE, res |-> NoIPOut]

SpecSleep == InitSleep /\ [][Next]_vars

\* one subdomain whose record exists, on a host whose address stays the
\* same
InitConv ==
    /\ hostIPs = { IPStr(1) }
    /\ \E p \in Providers, x \in IPs :
          /\ settings = Settings(p, FALSE, OneSubDomain)
          /\ remote = << << Rec(RemoteName(p, Home, ExampleCom), x) >> >>
    /\ InitLoops(OneSubDomain)
    /\ ipIn = NoIPIn
    /\ ipOut = [called |-> FALSE, res |-> NoIPOut]

\* the loop and the Supervisor keep running: a step that can be taken is
\* taken
SpecConv == InitConv /\ [][Next]_vars /\ WF_vars(Next)

\* one subdomain; the Cloudflare zone also lists a record named as the
\* domain itself and a record of a name that is not configured
InitZone ==
    /\ hostIPs = IPs
    /\ \E p \in Providers, x \in IPs, y \in IPs, z \in IPs :
          /\ settings = Settings(p, FALSE, OneSubDomain)
          /\ remote = IF p = "Cloudflare"
                      THEN << << Rec(ExampleCom, x),
                                 Rec(JoinName(Home, ExampleCom), y),
                                 Rec(JoinName(WWW, ExampleCom), z) >> >>
                      ELSE << << Rec(Home, y) >> >>
    /\ InitLoops(OneSubDomain)
    /\ ipIn = NoIPIn
    /\ ipOut = [called |-> FALSE, res |-> NoIPOut]

SpecZone == InitZone /\ [][Next]_vars

\* the goroutines are scheduled fairly: a deferred function that can send
\* does send, and the Supervisor's receive loop keeps running
Fairness ==
    /\ WF_vars(Supervise)
    /\ \A d \in DOMAIN TwoDomains : WF_vars(Recover(d))

SpecLive == InitSup /\ [][Next]_vars /\ Fairness

(***************************************************************************)
(* The resolver on its own                                                 *)
(***************************************************************************)
InitIP ==
    /\ settings = Settings("DNSPod", FALSE, << >>)
    /\ hostIPs = { }
    /\ remote = << >>
    /\ InitLoops(<< >>)
    /\ ipIn \in [conf : IPConfs, net : NetOutcomes, os : OSOutcomes]
    /\ ipOut = [called |-> FALSE, res |-> NoIPOut]

ResolveCall ==
    /\ ~ ipOut.called
    /\ ipOut' = [called |-> TRUE,
                 res |-> GetCurrentIP(ipIn.conf, ipIn.net, ipIn.os)]
    /\ UNCHANGED <<ipIn, loopVars>>

SpecIP == InitIP /\ [][ResolveCall]_vars

(***************************************************************************)
(* The interface lookup on its own                                         *)
(***************************************************************************)
InitIface ==
    /\ settings = Settings("DNSPod", FALSE, << >>)
    /\ hostIPs = { }
    /\ remote = << >>
    /\ InitLoops(<< >>)
    /\ ipIn \in [conf : {[IPUrl |-> "", IPInterface |-> "eth0"]},
                 net : {NoIPIn.net}, os : IfaceOutcomes]
    /\ ipOut = [called |-> FALSE, res |-> NoIPOut]

InterfaceCall ==
    /\ ~ ipOut.called
    /\ LET r == GetIPFromInterface(ipIn.os)
       IN  ipOut' = [called |-> TRUE,
                     res |-> [ip |-> r.ip, err |-> r.err,
                              online |-> FALSE, iface |-> TRUE]]
    /\ UNCHANGED <<ipIn, loopVars>>

SpecIface == InitIface /\ [][InterfaceCall]_vars

(***************************************************************************)
(* The change check on its own: two consecutive cycles of the DNSPod loop  *)
(* resolve the host's IP, the second compares its IP with the first's      *)
(***************************************************************************)
CR == "\r"

\* what the echo service may send for the address ip: bare, or ended by
\* LF, LF LF or CR LF
EchoBodies(ip) == { ip, ip \o <<NL>>, ip \o <<NL, NL>>, ip \o <<CR, NL>> }

EchoOutcomes == { [err |-> TRUE, body |-> EmptyStr] }
                  \cup { [err |-> FALSE, body |-> b] :
                            b \in UNION { EchoBodies(ip) : ip \in IPs } }

HostOutcomes == { [err |-> TRUE, addrs |-> << >>] }
                  \cup { [err |-> FALSE, addrs |-> << Addr("global", TRUE, ip) >>] :
                            ip \in IPs }

InitChg ==
    /\ settings = Settings("DNSPod", FALSE, << >>)
    /\ hostIPs = { }
    /\ remote = << >>
    /\ InitLoops(<< >>)
    /\ ipIn \in [conf : {[IPUrl |-> "http://myip", IPInterface |-> "eth0"]},
                 prevNet : EchoOutcomes, prevOS : HostOutcomes,
                 net : EchoOutcomes, os : HostOutcomes]
    /\ ipOut = [called |-> FALSE, res |-> NoIPOut, last |-> EmptyStr,
                changed |-> FALSE]

CompareCall ==
    /\ ~ ipOut.called
    /\ LET last == GetCurrentIP(ipIn.conf, ipIn.prevNet, ipIn.prevOS).ip
           r == GetCurrentIP(ipIn.conf, ipIn.net, ipIn.os)
       IN  ipOut' = [called |-> TRUE, res |-> r, last |-> last,
                     changed |-> IPChanged(last, r.ip)]
    /\ UNCHANGED <<ipIn, loopVars>>

SpecChg == InitChg /\ [][CompareCall]_vars

(***************************************************************************)
(* SetConfiguration on its own: a handler is configured, then configured   *)
(* again with the same settings                                            *)
(***************************************************************************)
NoConf == [Provider |-> ""]
NewHandler == [Configuration |-> NoConf, API |-> ""]

\* the default API base is also written back into the settings
DP_SetConfiguration_WriteBack(h, conf) ==
    IF conf.Api # ""
    THEN [handler |-> [Configuration |-> conf, API |-> conf.Api], conf |-> conf]
    ELSE LET c == [conf EXCEPT !.Api = "https://dnsapi.cn"]
         IN  [handler |-> [Configuration |-> c, API |-> c.Api], conf |-> c]

\* dnspod_handler.go lines 27-34; result: the handler and the settings
\* behind the pointer after the call
DP_SetConfiguration(h, conf) ==
    [handler |-> [Configuration |-> conf,
                  API |-> IF conf.Api # "" THEN conf.Api ELSE "https://dnsapi.cn"],
     conf |-> conf]

\* cloudflare_handler.go lines 63-66
CF_SetConfiguration(h, conf) ==
    [handler |-> [Configuration |-> conf,
                  API |-> "https://api.cloudflare.com/client/v4"],
     conf |-> conf]

SetConfiguration(h, conf) ==
    IF conf.Provider = "DNSPod"
    THEN DP_SetConfiguration(h, conf)
    ELSE CF_SetConfiguration(h, conf)

\* settings as loaded, with the optional API base URL
Confs ==
    { Settings(p, n, doms) @@ [Api |-> a] :
         p \in Providers, n \in BOOLEAN,
         doms \in {OneDomain, OneSubDomain, TwoDomains},
         a \in {"", "https://api.example"} }

\* a handler is fresh or was configured before with other settings
OldHandlers(p) ==
    { NewHandler,
      SetConfiguration(NewHandler,
                       Settings(p, FALSE, << >>) @@ [Api |-> ""]).handler,
      SetConfiguration(NewHandler,
                       Settings(p, FALSE, << >>) @@ [Api |-> "https://old.example"]).handler }

InitConf ==
    /\ settings = Settings("DNSPod", FALSE, << >>)
    /\ hostIPs = { }
    /\ remote = << >>
    /\ InitLoops(<< >>)
    /\ \E c \in Confs : \E h \in OldHandlers(c.Provider) :
          /\ ipIn = [conf |-> c, handler |-> h]
          /\ ipOut = [called |-> FALSE, res |-> NoIPOut, calls |-> 0,
                      handler |-> h, conf |-> c, once |-> h]

\* the next call of SetConfiguration with the settings as the previous call
\* left them
SetConfigurationCall ==
    /\ ipOut.calls < 2
    /\ LET r == SetConfiguration(ipOut.handler, ipOut.conf)
       IN  ipOut' = [called |-> TRUE, res |-> NoIPOut, calls |-> ipOut.calls + 1,
                     handler |-> r.handler, conf |-> r.conf,
                     once |-> IF ipOut.calls = 0 THEN r.handler ELSE ipOut.once]
    /\ UNCHANGED <<ipIn, loopVars>>

SpecConf == InitConf /\ [][SetConfigurationCall]_vars

(***************************************************************************)
(* Observations on the events of the cycle in progress                     *)
(***************************************************************************)
EventsOf(d, ops) == { i \in 1..Len(log[d]) : log[d][i].op \in ops }
HasEvent(d, ops) == EventsOf(d, ops) # { }

UpdateOps == {"Record.Modify", "update"}
Running(d) == pc[d] \notin {"recovering", "dead"}
Abandoned(d) == failCount[d] >= PanicMax

(***************************************************************************)
(* C1: with PanicMax = 5, a domain whose loop keeps panicking is           *)
(* relaunched exactly 5 times before the Supervisor gives it up, and a     *)
(* sibling that never panicked is still running.                           *)
(***************************************************************************)
C1_FiveRelaunches ==
    \A d \in Doms :
        Abandoned(d) =>
            /\ launches[d] = 5
            /\ \A e \in Doms \ {d} : panics[e] = 0 => Running(e)

(***************************************************************************)
(* C2: every FailureSignal for a domain raises that domain's failure       *)
(* counter by one; the domain is relaunched exactly when the raised        *)
(* counter is below PanicMax; a domain whose counter reached PanicMax is   *)
(* never relaunched, so relaunches per domain stay below PanicMax.         *)
(***************************************************************************)
C2_Step(d) ==
    /\ ( /\ panicChan # << >>
         /\ panicChan' = Tail(panicChan)
         /\ Head(panicChan) = Dom(d) )
       => failCount'[d] = failCount[d] + 1
    /\ failCount'[d] # failCount[d]
       => /\ failCount'[d] = failCount[d] + 1
          /\ (failCount'[d] < PanicMax) <=> (launches'[d] = launches[d] + 1)
          /\ (failCount'[d] < PanicMax) <=> (pc'[d] = "top")
          /\ launches'[d] \in {launches[d], launches[d] + 1}
    /\ launches'[d] # launches[d] => failCount'[d] = failCount[d] + 1
    /\ failCount[d] >= PanicMax
       => launches'[d] = launches[d] /\ pc'[d] = pc[d]
    /\ launches'[d] < PanicMax

C2_BoundedRelaunch == [][\A d \in Doms : C2_Step(d)]_vars

C2_Witness ==
    \E d \in Doms, e \in Doms :
        /\ failCount[d] = PanicMax /\ launches[d] = PanicMax - 1 /\ pc[d] = "dead"
        /\ failCount[e] = 1 /\ launches[e] = 1 /\ pc[e] = "top"

(***************************************************************************)
(* C3: failure accounting is per domain.  A step that counts a failure of  *)
(* domain a leaves the counter, the loop and the relaunch count of every   *)
(* other domain b alone; a domain's counter never exceeds the faults of    *)
(* its own loops, so b is abandoned only after PanicMax faults of its own. *)
(***************************************************************************)
C3_Step(a, b) ==
    failCount'[a] # failCount[a]
    => /\ failCount'[b] = failCount[b]
       /\ pc'[b] = pc[b]
       /\ launches'[b] = launches[b]
       /\ lastIP'[b] = lastIP[b]
       /\ log'[b] = log[b]

C3_PerDomain ==
    [][ /\ \A a \in Doms : \A b \in Doms \ {a} : C3_Step(a, b)
        /\ \A b \in Doms : failCount'[b] <= panics'[b]
        /\ \A b \in Doms : failCount'[b] >= PanicMax => panics'[b] >= PanicMax ]_vars

C3_Witness ==
    /\ Cardinality(Doms) = 2
    /\ failCount[1] = PanicMax /\ pc[1] = "dead"
    /\ failCount[2] = 1 /\ panics[2] = 1 /\ pc[2] = "sleep"

(***************************************************************************)
(* C4: a fault in a cycle puts the loop in its deferred handler, which     *)
(* sends exactly one FailureSignal carrying the loop's own domain and      *)
(* ends the loop; after the fault the loop makes no call, changes no       *)
(* record, does not restart itself; signals are sent only after a fault.   *)
(***************************************************************************)
C4_Step(d) ==
    /\ panics'[d] # panics[d]
       => /\ panics'[d] = panics[d] + 1
          /\ Running(d)
          /\ pc'[d] = "recovering"
    /\ pc[d] = "recovering"
       => /\ remote'[d] = remote[d]
          /\ log'[d] = log[d]
          /\ panics'[d] = panics[d]
          /\ pc'[d] \in {"recovering", "dead"}
          /\ pc'[d] = "dead"
             => /\ panicChan' = Append(panicChan, Dom(d))
                /\ signals'[d] = signals[d] + 1
    /\ pc[d] = "dead"
       => /\ remote'[d] = remote[d]
          /\ log'[d] = log[d]
          /\ panics'[d] = panics[d]
          /\ signals'[d] = signals[d]
          /\ pc'[d] \in {"dead", "top"}
          /\ pc'[d] = "top" => launches'[d] = launches[d] + 1
    /\ signals'[d] # signals[d]
       => /\ pc[d] = "recovering"
          /\ signals'[d] = signals[d] + 1
    /\ signals'[d] + (IF pc'[d] = "recovering" THEN 1 ELSE 0) = panics'[d]

C4_OneSignalThenStop == [][\A d \in Doms : C4_Step(d)]_vars

C4_Witness ==
    /\ Cardinality(Doms) = 2
    /\ pc[2] = "dead" /\ panics[2] = 1 /\ signals[2] = 1
    /\ panicChan = << Dom(2) >>
    /\ pc[1] = "sleep"

(***************************************************************************)
(* C5: in a cycle whose resolved IP equals the cached one, the loop issues *)
(* no provider update call and no notification.  The DNSPod loop caches    *)
(* lastIP; for the Cloudflare loop the cached IP is the one resolved in    *)
(* the loop's previous cycle (prevIP).                                     *)
(***************************************************************************)
Resolved(d) == HasEvent(d, {"resolve"})

IPUnchanged(d) ==
    /\ Resolved(d)
    /\ IF settings.Provider = "DNSPod"
       THEN ~ HasEvent(d, {"setLastIP"})
       ELSE prevIP[d] # EmptyStr /\ currentIP[d] = prevIP[d]

C5_NoUpdateWhenUnchanged ==
    \A d \in Doms :
        IPUnchanged(d) => ~ HasEvent(d, UpdateOps \cup {"notify"})

(***************************************************************************)
(* C6: lastIP is overwritten only by an IP that was applied at the         *)
(* provider: at the end of a cycle that changed lastIP, lastIP is not      *)
(* empty and an update to it succeeded in the cycle or a record of the     *)
(* domain holds it.                                                        *)
(***************************************************************************)
AppliedInCycle(d) ==
    \/ \E i \in EventsOf(d, UpdateOps) : log[d][i].ok /\ log[d][i].ip = lastIP[d]
    \/ \E k \in 1..Len(remote[d]) :
          TrimRightNL(remote[d][k].ip) = TrimRightNL(lastIP[d])

C6_LastIPOnlyApplied ==
    \A d \in Doms :
        (pc[d] = "sleep" /\ HasEvent(d, {"setLastIP"}))
        => lastIP[d] # EmptyStr /\ AppliedInCycle(d)

(***************************************************************************)
(* C7: GetCurrentIP returns an error when no configured source delivers    *)
(* an address, and never an empty IP without an error.                     *)
(***************************************************************************)
C7_ErrorWhenNoAddress ==
    ipOut.called =>
        /\ ~ IPObtainable(ipIn.conf, ipIn.net, ipIn.os) => ipOut.res.err
        /\ ~ (ipOut.res.ip = EmptyStr /\ ~ ipOut.res.err)

(***************************************************************************)
(* C8: GetCurrentIP asks the online source first when an IP URL is set     *)
(* and returns its answer without consulting the interface; when the       *)
(* online source fails or is not configured and the configured interface   *)
(* yields an address, it returns that address and no error.                *)
(***************************************************************************)
OnlineOK == ipIn.conf.IPUrl # "" /\ ~ ipIn.net.err
IfaceOK ==
    /\ ipIn.conf.IPInterface # ""
    /\ ~ ipIn.os.err
    /\ \E i \in 1..Len(ipIn.os.addrs) : AddrQualifies(ipIn.os.addrs[i])

C8_OnlineFirstThenInterface ==
    ipOut.called =>
        /\ ipIn.conf.IPUrl # "" => ipOut.res.online
        /\ OnlineOK
           => /\ ipOut.res.ip = TrimNL(ipIn.net.body)
              /\ ~ ipOut.res.err
              /\ ~ ipOut.res.iface
        /\ (~ OnlineOK /\ IfaceOK)
           => /\ ipOut.res.ip = GetIPFromInterface(ipIn.os).ip
              /\ ipOut.res.ip # EmptyStr
              /\ ~ ipOut.res.err
              /\ ipOut.res.iface

C8_Witness ==
    /\ ipOut.called
    /\ ipIn.conf.IPUrl # "" /\ ipIn.net.err
    /\ ipIn.conf.IPInterface # "" /\ Len(ipIn.os.addrs) = 2
    /\ ipOut.res.ip = IPStr(1) /\ ~ ipOut.res.err

(***************************************************************************)
(* C9: a cycle in which no configured source delivers an IP issues no      *)
(* update and no notification, leaves lastIP alone and does not end the    *)
(* loop.                                                                   *)
(***************************************************************************)
NoIPThisCycle(d) ==
    \E i \in EventsOf(d, {"resolve"}) : ~ log[d][i].ok

C9_NoIPNoEffect ==
    \A d \in Doms :
        NoIPThisCycle(d)
        => /\ ~ HasEvent(d, UpdateOps \cup {"notify", "setLastIP"})
           /\ Running(d)

(***************************************************************************)
(* C10: first cycle of a fresh loop, one subdomain, notifications on, the  *)
(* record exists with a value other than the resolved IP: the cycle        *)
(* issues exactly one update, carrying the resolved IP for that record,    *)
(* and exactly one notification, for "<subdomain>.<domainName>" and the    *)
(* resolved IP.                                                            *)
(***************************************************************************)
RecordSeenDifferent(d, sub) ==
    IF settings.Provider = "DNSPod"
    THEN \E i \in EventsOf(d, {"Record.List"}) :
            /\ log[d][i].ok
            /\ log[d][i].name = sub
            /\ log[d][i].ip # EmptyStr
            /\ log[d][i].ip # currentIP[d]
    ELSE \E k \in 1..Len(recs[d]) :
            /\ recs[d][k].Name = JoinName(sub, Dom(d).DomainName)
            /\ recs[d][k].IP # EmptyStr
            /\ recs[d][k].IP # currentIP[d]

FirstCycleDone(d) ==
    /\ first[d]
    /\ pc[d] = "sleep"
    /\ settings.NotifyEnabled
    /\ Len(Dom(d).SubDomains) = 1
    /\ currentIP[d] # EmptyStr
    /\ RecordSeenDifferent(d, Dom(d).SubDomains[1])

C10_OneUpdateOneNotification ==
    \A d \in Doms :
        FirstCycleDone(d)
        => /\ Cardinality(EventsOf(d, UpdateOps)) = 1
           /\ \A i \in EventsOf(d, UpdateOps) : log[d][i].ip = currentIP[d]
           /\ Cardinality(EventsOf(d, {"notify"})) = 1
           /\ \A i \in EventsOf(d, {"notify"}) :
                 /\ log[d][i].name = JoinName(Dom(d).SubDomains[1], Dom(d).DomainName)
                 /\ log[d][i].ip = currentIP[d]

(***************************************************************************)
(* C11: a subdomain whose remote record already holds the resolved IP gets *)
(* no update call and no notification in the cycle, also when lastIP       *)
(* differs from the resolved IP (first cycle of a fresh loop).  DNSPod:    *)
(* the record the lookup returned; Cloudflare: every fetched record of     *)
(* that name.                                                              *)
(***************************************************************************)
RecordAlreadyCurrent(d, sub) ==
    IF settings.Provider = "DNSPod"
    THEN \E i \in EventsOf(d, {"Record.List"}) :
            /\ log[d][i].ok
            /\ log[d][i].name = sub
            /\ log[d][i].ip = currentIP[d]
    ELSE /\ \E k \in 1..Len(recs[d]) :
               recs[d][k].Name = JoinName(sub, Dom(d).DomainName)
         /\ \A k \in 1..Len(recs[d]) :
               recs[d][k].Name = JoinName(sub, Dom(d).DomainName)
               => recs[d][k].IP = currentIP[d]

CallsFor(d, sub) ==
    { i \in EventsOf(d, UpdateOps \cup {"notify"}) :
         log[d][i].name \in {sub, JoinName(sub, Dom(d).DomainName)} }

C11_NoCallWhenRecordCurrent ==
    \A d \in Doms :
        \A s \in 1..Len(Dom(d).SubDomains) :
            RecordAlreadyCurrent(d, Dom(d).SubDomains[s])
            => CallsFor(d, Dom(d).SubDomains[s]) = { }

C11_Witness ==
    \E d \in Doms :
        /\ settings.Provider = "DNSPod"
        /\ first[d] /\ pc[d] = "sleep"
        /\ HasEvent(d, {"setLastIP"})
        /\ currentIP[d] # EmptyStr
        /\ Len(Dom(d).SubDomains) = 2
        /\ RecordAlreadyCurrent(d, Dom(d).SubDomains[1])
        /\ CallsFor(d, Dom(d).SubDomains[2]) # { }

(***************************************************************************)
(* C12: a failed or empty record lookup, or a failed update, skips only    *)
(* the subdomain it concerns.  The step that meets the failure leaves the  *)
(* loop running and sends no FailureSignal; in a cycle that reconciles,    *)
(* every configured subdomain is looked up in turn, and every subdomain    *)
(* whose record was found with a value other than the resolved IP gets     *)
(* its update call (Cloudflare: every tracked record already scanned).     *)
(***************************************************************************)
LookupSkipped(e) == e.op = "Record.List" /\ (~ e.ok \/ e.ip = EmptyStr)
UpdateFailed(e) == e.op \in UpdateOps /\ ~ e.ok

C12_Step(d) ==
    ( /\ Len(log'[d]) > Len(log[d])
      /\ \E i \in (Len(log[d]) + 1)..Len(log'[d]) :
            LookupSkipped(log'[d][i]) \/ UpdateFailed(log'[d][i]) )
    => /\ panics' = panics
       /\ signals' = signals
       /\ panicChan' = panicChan
       /\ pc'[d] \in {"subs", "recs", "sleep"}

LookedUp(d) ==
    IF pc[d] = "sleep" THEN Len(Dom(d).SubDomains)
    ELSE IF pc[d] = "subs" THEN idx[d] - 1
    ELSE 0

C12_Siblings(d) ==
    IF settings.Provider = "DNSPod"
    THEN HasEvent(d, {"setLastIP"})
         => /\ Cardinality(EventsOf(d, {"Record.List"})) = LookedUp(d)
            /\ \A s \in 1..LookedUp(d) :
                  \E i \in EventsOf(d, {"Record.List"}) :
                     log[d][i].name = Dom(d).SubDomains[s]
            /\ \A i \in EventsOf(d, {"Record.List"}) :
                  ( /\ ~ LookupSkipped(log[d][i])
                    /\ log[d][i].ip # currentIP[d] )
                  => \E j \in EventsOf(d, {"Record.Modify"}) :
                        /\ j > i
                        /\ log[d][j].name = log[d][i].name
                        /\ log[d][j].ip = currentIP[d]
    ELSE pc[d] \in {"recs", "sleep"}
         => \A k \in 1..Len(recs[d]) :
               ( /\ (pc[d] = "recs" => k < idx[d])
                 /\ recordTracked(Dom(d), recs[d][k])
                 /\ recs[d][k].IP # currentIP[d] )
               => \E j \in EventsOf(d, {"update"}) :
                     /\ log[d][j].name = recs[d][k].Name
                     /\ log[d][j].ip = currentIP[d]

C12_SkipOnlyOne ==
    [][\A d \in Doms : C12_Step(d) /\ C12_Siblings(d)']_vars

C12_Witness ==
    \E d \in Doms :
        /\ settings.Provider = "DNSPod"
        /\ pc[d] = "sleep"
        /\ Len(Dom(d).SubDomains) = 2
        /\ Len(log[d]) >= 6
        /\ LookupSkipped(log[d][4])
        /\ log[d][4].name = Dom(d).SubDomains[1]
        /\ log[d][5].op = "Record.List" /\ ~ LookupSkipped(log[d][5])
        /\ log[d][6].op = "Record.Modify" /\ log[d][6].ok
        /\ log[d][6].name = Dom(d).SubDomains[2]

(***************************************************************************)
(* C13: the Notifier is called for a subdomain only right after that       *)
(* subdomain's update succeeded in the same cycle, never after a failed    *)
(* update; a cycle in which the Notifier failed still runs on to the       *)
(* remaining subdomains and to its sleep.                                  *)
(***************************************************************************)
NotifiedAfterSuccess(d, i) ==
    /\ i > 1
    /\ log[d][i - 1].op \in UpdateOps
    /\ log[d][i - 1].ok
    /\ JoinName(log[d][i - 1].name, Dom(d).DomainName) = log[d][i].name
    /\ log[d][i - 1].ip = log[d][i].ip

C13_NotifyOnlyAfterSuccess ==
    \A d \in Doms :
        \A i \in EventsOf(d, {"notify"}) :
            /\ NotifiedAfterSuccess(d, i)
            /\ ~ log[d][i].ok => pc[d] \in {"subs", "sleep"}

(***************************************************************************)
(* C14: consecutive cycles of a loop are separated by the interval sleep,  *)
(* whatever the earlier cycle's outcome.  The events of a cycle stay in    *)
(* log until its sleep completes, so a loop standing at the top of its     *)
(* for statement, about to take a cycle's first step, has no events of an  *)
(* earlier cycle that did not sleep.                                       *)
(***************************************************************************)
C14_SleepBetweenCycles ==
    \A d \in Doms : pc[d] = "top" => log[d] = << >>

(***************************************************************************)
(* C15: a cycle whose resolved IP equals the cached one makes no provider  *)
(* call of any kind: no domain or zone lookup, no record lookup, no        *)
(* update, from its start to its sleep (both loops).                       *)
(***************************************************************************)
ProviderOps ==
    {"Domain.List", "Record.List", "Record.Modify", "zones", "dns_records", "update"}

C15_NoProviderCallWhenUnchanged ==
    \A d \in Doms :
        IPUnchanged(d) => ~ HasEvent(d, ProviderOps)

(***************************************************************************)
(* C16: under fair scheduling every FailureSignal a loop tries to emit is  *)
(* received by the Supervisor: a loop in its deferred handler gets to      *)
(* send, and the Supervisor counts the signal, for any number of loops     *)
(* failing together and also after other domains were abandoned.           *)
(***************************************************************************)
C16_SignalsReceived ==
    \A d \in DOMAIN TwoDomains :
        (pc[d] = "recovering") ~> (pc[d] # "recovering" /\ failCount[d] = panics[d])

C16_Witness ==
    /\ Len(panicChan) = 2
    /\ panicChan[1] # panicChan[2]
    /\ failCount[DomainIndex(panicChan[1])] = PanicMax - 1

(***************************************************************************)
(* C17: GetIPFromInterface never returns an address that is unspecified,   *)
(* multicast, loopback, link-local (unicast or multicast) or not IPv4; it  *)
(* returns the first address of the reported list that is none of these,   *)
(* and an error when the list has no such address.                         *)
(***************************************************************************)
Disqualified(a) ==
    \/ a.kind \in {"nil", "unspecified", "multicast", "loopback", "linklocal",
                   "linklocalmc", "ifacelocalmc"}
    \/ ~ a.v4

FirstGood(addrs, k) ==
    /\ k \in 1..Len(addrs)
    /\ ~ Disqualified(addrs[k])
    /\ \A j \in 1..(k - 1) : Disqualified(addrs[j])

C17_FirstQualifyingAddress ==
    ipOut.called =>
        LET addrs == ipIn.os.addrs
            res == ipOut.res
        IN  /\ ~ res.err
               => \E k \in 1..Len(addrs) :
                     FirstGood(addrs, k) /\ res.ip = addrs[k].ip
            /\ res.err <=> (ipIn.os.err \/ \A k \in 1..Len(addrs) : Disqualified(addrs[k]))
            /\ res.err => res.ip = EmptyStr

C17_Witness ==
    /\ ipOut.called
    /\ Len(ipIn.os.addrs) = 2
    /\ ipIn.os.addrs[1].kind = "global" /\ ~ ipIn.os.addrs[1].v4
    /\ ipIn.os.addrs[2].kind = "global" /\ ipIn.os.addrs[2].v4
    /\ ~ ipOut.res.err
    /\ ipOut.res.ip = ipIn.os.addrs[2].ip

(***************************************************************************)
(* C18: the change check treats two values that differ only by trailing    *)
(* newlines as unchanged, and reports "unchanged" exactly when lastIP and  *)
(* the resolved IP are equal after trailing newlines and whitespace are    *)
(* trimmed from both.                                                      *)
(***************************************************************************)
RECURSIVE TrimRightSpace(_)
TrimRightSpace(s) ==
    IF s # EmptyStr /\ s[Len(s)] \in {NL, CR, " ", "\t"}
    THEN TrimRightSpace(SubSeq(s, 1, Len(s) - 1))
    ELSE s

\* the text a source delivered before any trimming
RawIP(conf, net, os) ==
    IF conf.IPUrl # "" /\ ~ net.err THEN net.body
    ELSE GetCurrentIP(conf, net, os).ip

C18_TrailingNoiseUnchanged ==
    ipOut.called =>
        /\ TrimRightNL(RawIP(ipIn.conf, ipIn.prevNet, ipIn.prevOS))
             = TrimRightNL(RawIP(ipIn.conf, ipIn.net, ipIn.os))
           => ~ ipOut.changed
        /\ ~ ipOut.changed
           <=> TrimRightSpace(ipOut.last) = TrimRightSpace(ipOut.res.ip)

(***************************************************************************)
(* C19: when several remote records match a configured subdomain name,     *)
(* only the first in the provider's order is selected and updated: a       *)
(* cycle issues at most one update per name, and no step changes a record  *)
(* that comes after another record of the same name.                       *)
(***************************************************************************)
LaterMatch(d, k) ==
    /\ k \in 1..Len(remote[d])
    /\ FirstIndex(remote[d], remote[d][k].name, 1) < k

C19_Step(d) ==
    /\ \A k \in 1..Len(remote[d]) :
          LaterMatch(d, k) => remote'[d][k] = remote[d][k]
    /\ \A i \in 1..Len(log'[d]) :
          Cardinality({ j \in 1..Len(log'[d]) :
                          /\ log'[d][j].op \in UpdateOps
                          /\ log'[d][j].name = log'[d][i].name }) <= 1

C19_FirstMatchOnly == [][\A d \in Doms : C19_Step(d)]_vars

(***************************************************************************)
(* C20: the sleep that ends a cycle lasts the configured interval in       *)
(* seconds, and 300 seconds when the configured interval is zero or        *)
(* absent, in the loop of every provider.                                  *)
(***************************************************************************)
C20_SleepsConfiguredInterval ==
    \A d \in Doms :
        ~ first[d]
        => slept[d] = ( IF settings.ConfigInterval = 0
                        THEN 300 ELSE settings.ConfigInterval )

(***************************************************************************)
(* C21: SetConfiguration stores the settings and the API base and does     *)
(* nothing else: after a call the handler points to the settings given,    *)
(* the settings are as they were given, a second call with the same        *)
(* settings leaves the handler as the first call left it, and no call      *)
(* touches the provider's records or issues a provider call.               *)
(***************************************************************************)
C21_State ==
    ipOut.calls >= 1
    => /\ ipOut.conf = ipIn.conf
       /\ ipOut.handler.Configuration = ipIn.conf
       /\ ipOut.calls = 2 => ipOut.handler = ipOut.once
       /\ remote = << >> /\ log = << >>

C21_SetConfigurationIdempotent ==
    [][C21_State' /\ remote' = remote /\ log' = log]_vars

C21_Witness ==
    /\ ipOut.calls = 2
    /\ ipIn.conf.Provider = "DNSPod"
    /\ ipIn.conf.Api = ""
    /\ ipIn.handler.API = "https://old.example"
    /\ ipOut.handler.API = "https://dnsapi.cn"

(***************************************************************************)
(* C22: convergence.  If from some point on the loop does not fault, the   *)
(* resolver delivers the host's address v in every cycle and every         *)
(* provider lookup and update succeeds, then eventually every record of    *)
(* the domain holds v, also when an earlier update to v failed.            *)
(***************************************************************************)
CleanEvent(e, v) ==
    /\ e.ok
    /\ e.op = "resolve" => e.ip = v

CleanCycles(d, v) ==
    /\ Running(d)
    /\ \A i \in 1..Len(log[d]) : CleanEvent(log[d][i], v)

Converged(d, v) ==
    \A k \in 1..Len(remote[d]) : remote[d][k].ip = v

C22_Convergence ==
    \A d \in DOMAIN OneSubDomain :
        <>[]CleanCycles(d, IPStr(1)) => <>Converged(d, IPStr(1))

(***************************************************************************)
(* C23: at most one Domain Loop runs per configured domain.  The loops     *)
(* started for a domain (one at start, one per relaunch) less the loops    *)
(* that ended (a loop ends by sending its FailureSignal) is 1 while the    *)
(* domain's loop runs and 0 while it is ended; a relaunch happens only     *)
(* for an ended loop, on receipt of its signal.                            *)
(***************************************************************************)
LiveLoops(d) == 1 + launches[d] - signals[d]

C23_Step(d) ==
    /\ LiveLoops(d)' \in {0, 1}
    /\ LiveLoops(d)' = 0 <=> pc'[d] = "dead"
    /\ signals'[d] # signals[d] => pc'[d] = "dead"
    /\ launches'[d] # launches[d]
       => /\ pc[d] = "dead"
          /\ launches'[d] = launches[d] + 1
          /\ panicChan # << >>
          /\ Head(panicChan) = Dom(d)
          /\ panicChan' = Tail(panicChan)

C23_OneLoopPerDomain == [][\A d \in Doms : C23_Step(d)]_vars

C23_Witness ==
    /\ Cardinality(Doms) = 2
    /\ launches[1] = 2 /\ signals[1] = 2 /\ pc[1] = "subs"
    /\ pc[2] = "dead" /\ launches[2] = 1 /\ signals[2] = 2

(***************************************************************************)
(* C24: DNSPod loop.  A cycle whose domain lookup did not yield the id of  *)
(* the configured domain (request error, unparsable answer, non-success    *)
(* status, name absent from the list) is skipped: it issues no             *)
(* Record.List and no Record.Modify call and sends no notification.        *)
(***************************************************************************)
DomainLookupFailed(d) ==
    \E i \in EventsOf(d, {"Domain.List"}) : ~ log[d][i].ok

C24_SkipOnDomainLookupFailure ==
    \A d \in Doms :
        (settings.Provider = "DNSPod" /\ DomainLookupFailed(d))
        => ~ HasEvent(d, {"Record.List", "Record.Modify", "notify"})

(***************************************************************************)
(* C25: the Cloudflare loop issues an update for a fetched record if and   *)
(* only if the record's name is "<subdomain>.<domainName>" for a           *)
(* configured subdomain and its value differs from the resolved IP; every  *)
(* other record of the zone, the one named as the bare domain included,    *)
(* is left untouched.                                                      *)
(* Amended (C25_TrackedRecordsOnly): ... if and only if the record's name  *)
(* is the domain name itself or "<subdomain>.<domainName>" for a           *)
(* configured subdomain, and its value differs from the resolved IP;       *)
(* every other record of the zone is left untouched.                       *)
(***************************************************************************)
SubDomainName(d, name) ==
    \E i \in 1..Len(Dom(d).SubDomains) :
        name = JoinName(Dom(d).SubDomains[i], Dom(d).DomainName)

\* the step that handles one fetched record; bare: whether a record named
\* as the domain itself is among those to update
C25_Step(d, bare) ==
    /\ (pc[d] = "recs" /\ idx'[d] = idx[d] + 1)
       => LET rec == recs[d][idx[d]]
              issued == /\ Len(log'[d]) = Len(log[d]) + 1
                        /\ log'[d][Len(log'[d])].op = "update"
                        /\ log'[d][Len(log'[d])].name = rec.Name
                        /\ log'[d][Len(log'[d])].ip = currentIP[d]
              due == /\ \/ SubDomainName(d, rec.Name)
                        \/ bare /\ rec.Name = Dom(d).DomainName
                     /\ rec.IP # currentIP[d]
          IN  /\ issued <=> due
              /\ ~ issued => log'[d] = log[d]
              /\ \A k \in 1..Len(remote[d]) :
                    (~ issued \/ remote[d][k].name # rec.Name)
                    => remote'[d][k] = remote[d][k]
    /\ ~ (pc[d] = "recs" /\ idx'[d] = idx[d] + 1)
       => /\ remote'[d] = remote[d]
          /\ EventsOf(d, {"update"})' \subseteq EventsOf(d, {"update"})

\* C25 as stated: only records named "<subdomain>.<domainName>" are updated
C25_SubDomainRecordsOnly ==
    [][settings.Provider = "Cloudflare" => \A d \in Doms : C25_Step(d, FALSE)]_vars

\* C25 amended: the record named as the domain itself is updated as well
C25_TrackedRecordsOnly ==
    [][settings.Provider = "Cloudflare" => \A d \in Doms : C25_Step(d, TRUE)]_vars

C25_Witness ==
    \E d \in Doms :
        /\ settings.Provider = "Cloudflare"
        /\ pc[d] = "sleep"
        /\ currentIP[d] # EmptyStr
        /\ \E i \in EventsOf(d, {"update"}) :
              log[d][i].name = Dom(d).DomainName /\ log[d][i].ok
        /\ \E i \in EventsOf(d, {"update"}) :
              log[d][i].name = JoinName(Home, ExampleCom)
        /\ \E k \in 1..Len(remote[d]) :
              /\ remote[d][k].name = JoinName(WWW, ExampleCom)
              /\ remote[d][k].ip # currentIP[d]

====
